---- MODULE Spec2Model ----
(***************************************************************************)
(* A model of pymongo_schema/export.py and pymongo_schema/mongo_sql_types.py *)
(* Most functions of the two files are pure (one call, one result), so the *)
(* state is one call frame: the function called, its arguments, and what   *)
(* it returned or raised.  Such a specification draws the arguments of one *)
(* function from a bounded set in its initial states and has one action    *)
(* that runs the function on them.  What outlives a call (the module       *)
(* global TYPE_TO_STR, the attributes of a writer, the log, the files) is  *)
(* kept in heap, and the specifications of the functions that touch it     *)
(* make call after call.                                                   *)
(***************************************************************************)
EXTENDS Integers, Sequences, FiniteSets, TLC

VARIABLES
    pc,      \* "call" before the function body has run, "done" after
    fn,      \* the name of the function called
    input,   \* its arguments, a record named after the parameters
    output,  \* its outcome: Return(value) or Raise(exception)
    heap     \* what outlives a call, a record named after what it holds

vars == <<pc, fn, input, output, heap>>

\* The heap of a function that reads and writes its arguments only.
NoHeap == <<>>

None == "None"

Return(v) == [raised |-> None, value |-> v]

Raise(e) == [raised |-> e, value |-> None]

Pending == [raised |-> None, value |-> None]

(***************************************************************************)
(* Bounds of the model.                                                    *)
(***************************************************************************)
MaxTypes == 3

(***************************************************************************)
(* mongo_sql_types.py : the type tree and common_parent_type               *)
(***************************************************************************)

\* The nodes of TYPES_TREE (newick format 8: every node is named).
TreeNames ==
    {"float", "boolean", "integer", "biginteger", "number",
     "oid", "dbref", "string", "date", "timestamp", "unknown",
     "general_scalar", "object", "mixed_scalar_object"}

\* Type names the schema uses that have no node in TYPES_TREE.
StructuralNames == {"null", "ARRAY", "OBJECT"}

TypeNames == TreeNames \cup StructuralNames

Root == "mixed_scalar_object"

\* A mutant of TYPES_TREE_STR: float above biginteger, as in
\* (((((boolean) integer) biginteger) float) number, ...).
TreeUpChain(n) ==
    CASE n = "float" -> "number"
      [] n = "biginteger" -> "float"
      [] n = "integer" -> "biginteger"
      [] n = "boolean" -> "integer"
      [] n = "number" -> "general_scalar"
      [] n \in {"oid", "dbref"} -> "string"
      [] n \in {"string", "date", "timestamp", "unknown"} -> "general_scalar"
      [] n \in {"general_scalar", "object"} -> "mixed_scalar_object"
      [] OTHER -> None

\* node.up in TYPES_TREE, as TYPES_TREE_STR nests the nodes:
\*   ((float, ((boolean) integer) biginteger) number,
\*    (oid, dbref) string, date, timestamp, unknown) general_scalar,
\*   object) mixed_scalar_object
TreeUp(n) ==
    CASE n \in {"float", "biginteger"} -> "number"
      [] n = "integer" -> "biginteger"
      [] n = "boolean" -> "integer"
      [] n = "number" -> "general_scalar"
      [] n \in {"oid", "dbref"} -> "string"
      [] n \in {"string", "date", "timestamp", "unknown"} -> "general_scalar"
      [] n \in {"general_scalar", "object"} -> "mixed_scalar_object"
      [] OTHER -> None

\* The loop `while current: ...; current = current.up` of
\* get_common_ancestor: n, n.up, n.up.up, ... up to the root.
RECURSIVE PathToRoot(_)
PathToRoot(n) == IF n = None THEN <<>> ELSE <<n>> \o PathToRoot(TreeUp(n))

SeqToSet(s) == {s[i] : i \in DOMAIN s}

\* The first element of sequence s that is in the set good, None when there
\* is none.
FirstIn(s, good) ==
    LET hits == {i \in DOMAIN s : s[i] \in good}
    IN  IF hits = {} THEN None
        ELSE s[CHOOSE i \in hits : \A j \in hits : i <= j]

\* TYPES_TREE.get_common_ancestor(*type_list) of ete3, then .name.
\*  - _translate_nodes collects the names in a dict (name2node), so a name
\*    listed twice is one target; a name with no node raises ValueError
\*    ("Node names not found").
\*  - one target only: the common ancestor of that node and the tree the
\*    method is called on (the root) is returned.
\*  - otherwise the path of the first target (the dict's first value,
\*    `first`) to the root is walked, and the first node on it that is on
\*    every other target's path is the result.
get_common_ancestor(type_list, first) ==
    LET names == SeqToSet(type_list)
        targets == IF Cardinality(names) = 1 THEN names \cup {Root} ELSE names
        ref_node == IF Cardinality(names) = 1
                    THEN CHOOSE n \in names : TRUE
                    ELSE first
        reference == PathToRoot(ref_node)
        on_all == {n \in TreeNames : \A t \in targets : n \in SeqToSet(PathToRoot(t))}
        common == FirstIn(reference, on_all)
    IN  IF ~(names \subseteq TreeNames) THEN Raise("ValueError")
        ELSE IF common = None THEN Raise("TreeError")
        ELSE Return(common)

\* common_parent_type(type_list).  `first` is the target that iterating the
\* dict of ete3 yields first; Python leaves that order open.
common_parent_type(type_list, first) ==
    IF Len(type_list) = 0 THEN Return("null")
    ELSE IF Len(type_list) = 1 THEN Return(type_list[1])
    ELSE get_common_ancestor(type_list, first)

\* Every list of at most n type names.
TypeLists(n) == UNION {[1..k -> TypeNames] : k \in 0..n}

InitTypes ==
    /\ pc = "call"
    /\ fn = "common_parent_type"
    /\ input \in {[type_list |-> l] : l \in TypeLists(MaxTypes)}
    /\ output = Pending
    /\ heap = NoHeap

CallCommonParentType ==
    /\ pc = "call"
    /\ fn = "common_parent_type"
    /\ \E first \in SeqToSet(input.type_list) \cup {None} :
          /\ (first = None) = (input.type_list = <<>>)
          /\ output' = common_parent_type(input.type_list, first)
    /\ pc' = "done"
    /\ UNCHANGED <<fn, input, heap>>

SpecTypes == InitTypes /\ [][CallCommonParentType]_vars

CalledTypes == pc = "done" /\ fn = "common_parent_type"

(***************************************************************************)
(* Claims about common_parent_type, under SpecTypes                        *)
(***************************************************************************)

\* n and every node above it.
AncestorsOrSelf(n) == SeqToSet(PathToRoot(n))

\* The lowest node of the tree that is at or above every node of S.
LowestCommonAncestor(S) ==
    CHOOSE a \in TreeNames :
        /\ \A t \in S : a \in AncestorsOrSelf(t)
        /\ \A b \in TreeNames :
              (\A t \in S : b \in AncestorsOrSelf(t)) => b \in AncestorsOrSelf(a)

\* C4: on a list of two or more type names common_parent_type returns the
\* lowest common ancestor of the listed types, and raises the lookup error
\* when a listed name has no node in the tree.
C4_ReturnsLowestCommonAncestor ==
    (CalledTypes /\ Len(input.type_list) >= 2) =>
        IF SeqToSet(input.type_list) \subseteq TreeNames
        THEN output = Return(LowestCommonAncestor(SeqToSet(input.type_list)))
        ELSE output = Raise("ValueError")

\* The targets ete3 may iterate first for a list.
Firsts(l) == IF l = <<>> THEN {None} ELSE SeqToSet(l)

\* C5: the outcome depends only on the set of distinct names of the list:
\* every list with the same names (a permutation, a list with repeats, the
\* singleton of a repeated name) has the same outcome.
C5_OutcomeDependsOnNameSetOnly ==
    CalledTypes =>
        \A l \in TypeLists(MaxTypes) :
            SeqToSet(l) = SeqToSet(input.type_list) =>
                \A f \in Firsts(l) : common_parent_type(l, f) = output

NumericTypes == {"boolean", "integer", "biginteger", "float"}

ChainRank(t) ==
    CASE t = "boolean" -> 1
      [] t = "integer" -> 2
      [] t = "biginteger" -> 3
      [] t = "float" -> 4

HigherInChain(a, b) == IF ChainRank(a) > ChainRank(b) THEN a ELSE b

CalledOnTwoNumerics ==
    /\ CalledTypes
    /\ Len(input.type_list) = 2
    /\ input.type_list[1] \in NumericTypes
    /\ input.type_list[2] \in NumericTypes
    /\ input.type_list[1] # input.type_list[2]

NumberAboveNumerics == \A t \in NumericTypes : "number" \in AncestorsOrSelf(t)

\* C6 as stated: boolean < integer < biginteger < float is a chain under
\* number, so the common parent of two distinct numeric types is the one
\* higher in the chain.
C6_NumericChainWithFloatOnTop ==
    /\ NumberAboveNumerics
    /\ CalledOnTwoNumerics =>
          output = Return(HigherInChain(input.type_list[1], input.type_list[2]))

\* C6 amended: boolean < integer < biginteger is a chain and float is a
\* separate child of number: two distinct types of the chain give the higher
\* one, float with any of the three gives number, and number is above all
\* four.
C6_NumericChainFloatBeside ==
    /\ NumberAboveNumerics
    /\ CalledOnTwoNumerics =>
          output = Return(IF "float" \in SeqToSet(input.type_list)
                          THEN "number"
                          ELSE HigherInChain(input.type_list[1], input.type_list[2]))

C6_Witness ==
    /\ CalledTypes
    /\ input.type_list = <<"biginteger", "float">>
    /\ output = Return("number")

(***************************************************************************)
(* export.py : rec_find_right_subclass and OutputPreProcessing.__new__     *)
(***************************************************************************)
MaxClasses == 3

BaseClass == "OutputPreProcessing"

\* Names of the strategy classes, in the order the class statements run;
\* cls.__subclasses__() lists the direct subclasses in that order.
AllClassNames == <<"S1", "S2", "S3", "S4", "S5">>

ClassNames == SubSeq(AllClassNames, 1, MaxClasses)

Categories == {"schema", "diff"}

\* A class hierarchy: bases[c] is the class c derives from (the base
\* strategy or a class defined before c), declared[c] the value of the
\* `category = ...` line in c's body, None when the body has no such line.
Hierarchies ==
    {[bases |-> b, declared |-> d] :
        b \in {f \in [SeqToSet(ClassNames) -> {BaseClass} \cup SeqToSet(ClassNames)] :
                 \A i \in DOMAIN ClassNames :
                    f[ClassNames[i]] \in {BaseClass} \cup {ClassNames[j] : j \in 1..(i - 1)}},
        d \in [SeqToSet(ClassNames) -> Categories \cup {None}]}

\* start_class.__subclasses__()
subclasses(h, start_class) ==
    SelectSeq(ClassNames, LAMBDA c : h.bases[c] = start_class)

\* getattr(cls, attribute): the class body's own value, else the value of
\* the nearest base.  OutputPreProcessing defines `category` as an abstract
\* property (an object equal to no string) and no class of the hierarchy
\* defines `output_format`.
RECURSIVE getattr(_, _, _)
getattr(h, cls, attribute) ==
    IF cls = BaseClass
    THEN IF attribute = "category" THEN Return("<property>")
         ELSE Raise("AttributeError")
    ELSE IF attribute = "category" /\ h.declared[cls] # None
         THEN Return(h.declared[cls])
         ELSE getattr(h, h.bases[cls], attribute)

\* The default of rec_find_right_subclass's parameter `attribute`.
DefaultAttribute == "output_format"

\* rec_find_right_subclass(attribute_value, attribute, start_class); the
\* loop over the subclasses runs from index i on.  The recursive call
\* passes attribute_value and start_class only, so `attribute` takes its
\* default there.
RECURSIVE rec_find_right_subclass_from(_, _, _, _, _)
rec_find_right_subclass_from(h, attribute_value, attribute, start_class, i) ==
    LET subs == subclasses(h, start_class)
    IN  IF i > Len(subs) THEN Return(None)
        ELSE LET subclass == subs[i]
                 attr == getattr(h, subclass, attribute)
             IN  IF attr.raised # None THEN attr
                 ELSE IF attr.value = attribute_value THEN Return(subclass)
                 ELSE LET rec_res == rec_find_right_subclass_from(
                                         h, attribute_value, DefaultAttribute, subclass, 1)
                      IN  IF rec_res.raised # None THEN rec_res
                          ELSE IF rec_res.value # None THEN rec_res
                          ELSE rec_find_right_subclass_from(
                                   h, attribute_value, attribute, start_class, i + 1)

rec_find_right_subclass(h, attribute_value, attribute, start_class) ==
    rec_find_right_subclass_from(h, attribute_value, attribute, start_class, 1)

\* OutputPreProcessing.__new__(cls, category): object.__new__ of the class
\* found; object.__new__(None) raises TypeError.
OutputPreProcessing_new(h, category) ==
    LET found == rec_find_right_subclass(h, category, "category", BaseClass)
    IN  IF found.raised # None THEN found
        ELSE IF found.value = None THEN Raise("TypeError")
        ELSE found

InitDispatch ==
    /\ pc = "call"
    /\ fn = "OutputPreProcessing"
    /\ input \in {[hierarchy |-> h, category |-> c] :
                    h \in Hierarchies, c \in Categories \cup {"mapping"}}
    /\ output = Pending
    /\ heap = NoHeap

CallOutputPreProcessing ==
    /\ pc = "call"
    /\ fn = "OutputPreProcessing"
    /\ output' = OutputPreProcessing_new(input.hierarchy, input.category)
    /\ pc' = "done"
    /\ UNCHANGED <<fn, input, heap>>

SpecDispatch == InitDispatch /\ [][CallOutputPreProcessing]_vars

CalledDispatch == pc = "done" /\ fn = "OutputPreProcessing"

\* The classes whose body declares the category asked for.
Declaring(h, category) == {c \in SeqToSet(ClassNames) : h.declared[c] = category}

\* C9: when a strategy class at any depth of the hierarchy declares the
\* requested category, dispatch returns a strategy declaring that category.
C9_DispatchFindsDeclaringClass ==
    (CalledDispatch /\ Declaring(input.hierarchy, input.category) # {}) =>
        /\ output.raised = None
        /\ output.value \in Declaring(input.hierarchy, input.category)

(***************************************************************************)
(* Python strings.  A string is a TLA+ string; Head, Tail, Len, SubSeq and *)
(* \o act on its characters.                                               *)
(***************************************************************************)

\* s.split(sep) for a one-character sep: the pieces between the separators;
\* `piece` is the piece read so far.
RECURSIVE SplitFrom(_, _, _)
SplitFrom(s, sep, piece) ==
    IF s = "" THEN <<piece>>
    ELSE IF Head(s) = sep THEN <<piece>> \o SplitFrom(Tail(s), sep, "")
    ELSE SplitFrom(Tail(s), sep, piece \o Head(s))

split(s, sep) == SplitFrom(s, sep, "")

\* sep.join(pieces)
RECURSIVE join(_, _)
join(sep, pieces) ==
    IF pieces = <<>> THEN ""
    ELSE IF Len(pieces) = 1 THEN pieces[1]
    ELSE pieces[1] \o sep \o join(sep, Tail(pieces))

\* Every string of exactly n characters of the set chars.
RECURSIVE StringsOfLen(_, _)
StringsOfLen(chars, n) ==
    IF n = 0 THEN {""}
    ELSE {c \o s : c \in chars, s \in StringsOfLen(chars, n - 1)}

StringsUpTo(chars, n) == UNION {StringsOfLen(chars, k) : k \in 0..n}

(***************************************************************************)
(* export.py : _DiffPreProcessing.convert_to_dataframe                     *)
(***************************************************************************)
MaxPathLen == 5

MaxRecords == 1

PathChars == {"a", "."}

\* Python's `x or y`: x when x is truthy (not None, not empty), else y.
Or(x, y) == IF x # None /\ x # "" THEN x ELSE y

\* A mutant of the row of one record: a path of one segment gives an empty
\* Collection.
DiffRowEmptyCollection(d) ==
    IF d.hierarchy = None \/ d.hierarchy = ""
    THEN <<Or(d.prev_schema, d.new_schema), "", join(".", <<>>),
           d.prev_schema, d.new_schema>>
    ELSE LET hierarchy == split(d.hierarchy, ".")
             db == Head(hierarchy)
             rest == Tail(hierarchy)
         IN  IF rest = <<>>
             THEN <<db, "", join(".", rest), d.prev_schema, d.new_schema>>
             ELSE <<db, Head(rest), join(".", Tail(rest)),
                    d.prev_schema, d.new_schema>>

\* The body of the loop `for d in data`: the row appended to table for d,
\* [db, coll, '.'.join(hierarchy), d['prev_schema'], d['new_schema']].
DiffRow(d) ==
    IF d.hierarchy = None \/ d.hierarchy = ""
    THEN <<Or(d.prev_schema, d.new_schema), "", join(".", <<>>),
           d.prev_schema, d.new_schema>>
    ELSE LET hierarchy == split(d.hierarchy, ".")
             db == Head(hierarchy)
             rest == Tail(hierarchy)
         IN  IF rest = <<>>
             THEN <<db, Or(d.prev_schema, d.new_schema), join(".", rest),
                    d.prev_schema, d.new_schema>>
             ELSE <<db, Head(rest), join(".", Tail(rest)),
                    d.prev_schema, d.new_schema>>

DiffHeader == <<"Database", "Collection", "Hierarchy", "Previous Schema", "New Schema">>

\* _DiffPreProcessing.convert_to_dataframe(data): the dataframe as its
\* columns and its rows.
Diff_convert_to_dataframe(data) ==
    Return([columns |-> DiffHeader,
            table |-> [i \in DOMAIN data |-> DiffRow(data[i])]])

\* Change records: a dotted path (or no path), and the labels of the
\* previous and the new schema, one of which may be missing (not both).
DiffRecords ==
    {[hierarchy |-> h, prev_schema |-> p, new_schema |-> n] :
        h \in StringsUpTo(PathChars, MaxPathLen) \cup {None},
        p \in {None, "prev"}, n \in {None, "new"}} \
    {[hierarchy |-> h, prev_schema |-> None, new_schema |-> None] :
        h \in StringsUpTo(PathChars, MaxPathLen) \cup {None}}

InitDiff ==
    /\ pc = "call"
    /\ fn = "_DiffPreProcessing.convert_to_dataframe"
    /\ input \in {[data |-> d] :
                    d \in UNION {[1..k -> DiffRecords] : k \in 0..MaxRecords}}
    /\ output = Pending
    /\ heap = NoHeap

CallDiffConvertToDataframe ==
    /\ pc = "call"
    /\ fn = "_DiffPreProcessing.convert_to_dataframe"
    /\ output' = Diff_convert_to_dataframe(input.data)
    /\ pc' = "done"
    /\ UNCHANGED <<fn, input, heap>>

SpecDiff == InitDiff /\ [][CallDiffConvertToDataframe]_vars

CalledDiff == pc = "done" /\ fn = "_DiffPreProcessing.convert_to_dataframe"

\* The positions of the dots of s.
DotPositions(s) == {i \in 1..Len(s) : SubSeq(s, i, i) = "."}

\* The position of the k-th dot of s; with k = 0 position 0, and
\* Len(s) + 1 when s has fewer than k dots.
DotAt(s, k) ==
    IF k = 0 THEN 0
    ELSE IF Cardinality(DotPositions(s)) < k THEN Len(s) + 1
    ELSE CHOOSE i \in DotPositions(s) :
             Cardinality({j \in DotPositions(s) : j < i}) = k - 1

\* The k-th segment of s: the characters between dot k-1 and dot k.
Segment(s, k) == SubSeq(s, DotAt(s, k - 1) + 1, DotAt(s, k) - 1)

\* What follows the second dot of s.
AfterSecondDot(s) == SubSeq(s, DotAt(s, 2) + 1, Len(s))

NoPath(d) == d.hierarchy = None \/ d.hierarchy = ""

DiffRowOf(i) == output.value.table[i]

\* C10 as stated: the first segment of the path is the Database column, the
\* second the Collection column, the rest re-joined the Hierarchy column,
\* and the Collection column is the empty string whenever the path is empty
\* or has a single segment.
C10_ShortPathGivesEmptyCollection ==
    CalledDiff =>
        \A i \in DOMAIN input.data :
            LET d == input.data[i]
            IN  IF NoPath(d)
                THEN DiffRowOf(i)[2] = ""
                ELSE /\ DiffRowOf(i)[1] = Segment(d.hierarchy, 1)
                     /\ DiffRowOf(i)[2] = IF DotPositions(d.hierarchy) = {} THEN ""
                                          ELSE Segment(d.hierarchy, 2)
                     /\ DiffRowOf(i)[3] = AfterSecondDot(d.hierarchy)

\* C10 amended: for a non-empty path the first segment is the Database
\* column and what follows the second segment the Hierarchy column; the
\* Collection column is the second segment when there is one and
\* `prev_schema or new_schema` when the path has a single segment.  For an
\* empty path the Database column is `prev_schema or new_schema` and the
\* Collection and Hierarchy columns are empty.
C10_ShortPathTakesSchemaLabel ==
    CalledDiff =>
        \A i \in DOMAIN input.data :
            LET d == input.data[i]
                label == IF d.prev_schema # None THEN d.prev_schema ELSE d.new_schema
            IN  IF NoPath(d)
                THEN DiffRowOf(i) = <<label, "", "", d.prev_schema, d.new_schema>>
                ELSE /\ DiffRowOf(i)[1] = Segment(d.hierarchy, 1)
                     /\ DiffRowOf(i)[2] = IF DotPositions(d.hierarchy) = {} THEN label
                                          ELSE Segment(d.hierarchy, 2)
                     /\ DiffRowOf(i)[3] = AfterSecondDot(d.hierarchy)
                     /\ DiffRowOf(i)[4] = d.prev_schema
                     /\ DiffRowOf(i)[5] = d.new_schema

\* A single-segment path whose Collection column is the new schema's label.
C10_Witness ==
    /\ CalledDiff
    /\ Len(input.data) = 1
    /\ input.data[1].hierarchy = "a"
    /\ input.data[1].prev_schema = None
    /\ output.value.table[1] = <<"a", "new", "", None, "new">>

(***************************************************************************)
(* export.py : _SchemaPreProcessing.filter_data                            *)
(***************************************************************************)
MaxEntries == 3

\* Python values: a dict (its keys mapped to values) or a value that is no
\* dict (an int, a str), kept by its repr.
Dict(f) == [items |-> f]

Leaf(r) == [leaf |-> r]

\* isinstance(data, dict)
IsDict(data) == "items" \in DOMAIN data

EmptyDict == Dict(<<>>)

\* A mutant of the list of keys filter_data drops: array_types_count kept.
CountKeysShort == {"count", "types_count", "prop_in_object"}

\* The list in `if k not in [...]`.
CountKeys == {"count", "types_count", "prop_in_object", "array_types_count"}

\* _SchemaPreProcessing.filter_data(data)
RECURSIVE filter_data(_)
filter_data(data) ==
    IF IsDict(data)
    THEN Dict([k \in {k \in DOMAIN data.items : k \notin CountKeys} |->
                  filter_data(data.items[k])])
    ELSE data

\* Keys of the dicts filter_data is run on: the count fields, `object`, and
\* two other keys.
FilterKeys ==
    {"count", "types_count", "prop_in_object", "array_types_count", "object", "type"}

FilterLeaves == {Leaf("1")}

\* d with one more entry: a new key of d itself, or of a dict below d.
RECURSIVE WithOneMoreEntry(_)
WithOneMoreEntry(d) ==
    {Dict((k :> v) @@ d.items) :
        k \in FilterKeys \ DOMAIN d.items, v \in FilterLeaves \cup {EmptyDict}}
    \cup
    UNION {{Dict([d.items EXCEPT ![k] = sub]) : sub \in WithOneMoreEntry(d.items[k])} :
              k \in {k \in DOMAIN d.items : IsDict(d.items[k])}}

\* The nested dicts of at most n entries in all.
RECURSIVE DictsUpTo(_)
DictsUpTo(n) ==
    IF n = 0 THEN {EmptyDict}
    ELSE LET smaller == DictsUpTo(n - 1)
         IN  smaller \cup UNION {WithOneMoreEntry(d) : d \in smaller}

InitFilter ==
    /\ pc = "call"
    /\ fn = "filter_data"
    /\ input \in {[data |-> d] : d \in DictsUpTo(MaxEntries) \cup FilterLeaves}
    /\ output = Pending
    /\ heap = NoHeap

CallFilterData ==
    /\ pc = "call"
    /\ fn = "filter_data"
    /\ output' = Return(filter_data(input.data))
    /\ pc' = "done"
    /\ UNCHANGED <<fn, input, heap>>

SpecFilter == InitFilter /\ [][CallFilterData]_vars

CalledFilter == pc = "done" /\ fn = "filter_data"

\* The key paths from the top of v to each value in it (<<>> is v itself).
RECURSIVE Paths(_)
Paths(v) ==
    IF IsDict(v)
    THEN {<<>>} \cup UNION {{<<k>> \o p : p \in Paths(v.items[k])} : k \in DOMAIN v.items}
    ELSE {<<>>}

\* The value of v at a key path.
RECURSIVE At(_, _)
At(v, p) == IF p = <<>> THEN v ELSE At(v.items[Head(p)], Tail(p))

StatisticsKeys == {"count", "types_count", "prop_in_object", "array_types_count"}

\* C7: the result of filter_data is the input without the keys count,
\* types_count, prop_in_object and array_types_count at every dict level:
\* its key paths are the input's paths that use none of the four keys, a
\* dict stays a dict, a value that is no dict is unchanged, and filtering
\* the result again changes nothing.
C7_FilterDropsExactlyCountKeys ==
    CalledFilter =>
        LET in == input.data
            out == output.value
        IN  /\ output.raised = None
            /\ Paths(out) = {p \in Paths(in) : \A i \in DOMAIN p : p[i] \notin StatisticsKeys}
            /\ \A p \in Paths(out) :
                  /\ IsDict(At(out, p)) = IsDict(At(in, p))
                  /\ ~IsDict(At(in, p)) => At(out, p) = At(in, p)
            /\ filter_data(out) = out

\* A schema whose `object` dict holds a count field and a kept key below it,
\* filtered to the kept keys only.
C7_Witness ==
    /\ CalledFilter
    /\ input.data = Dict([object |-> Dict([array_types_count |-> Leaf("1"),
                                           type |-> Leaf("1")])])
    /\ output.value = Dict([object |-> Dict([type |-> Leaf("1")])])

(***************************************************************************)
(* Python's sorted                                                         *)
(***************************************************************************)

\* sorted(s), where less[j][i] tells whether the sort key of s[j] is less
\* than that of s[i]: the sort is stable, so s[i] comes after the elements
\* that are less and after the earlier elements that are neither less nor
\* greater.
sorted(s, less) ==
    LET n == Len(s)
        Before(j, i) == less[j][i] \/ (~less[i][j] /\ j < i)
        pos(i) == 1 + Cardinality({j \in 1..n : Before(j, i)})
    IN  [k \in 1..n |-> s[CHOOSE i \in 1..n : pos(i) = k]]

\* s[::-1]
Reversed(s) == [k \in 1..Len(s) |-> s[Len(s) + 1 - k]]

(***************************************************************************)
(* export.py : _SchemaPreProcessing._format_types_count                    *)
(***************************************************************************)
MaxTypeKeys == 3

MaxTypeCount == 2

\* None where a dict is expected: no (key, value) pairs to iterate.
NoneItems == <<<<None, 0>>>>

\* A dict whose order of iteration matters is the sequence of its
\* (key, value) pairs, as dict.items() yields them.
Keys(items) == {items[i][1] : i \in DOMAIN items}

\* A mutant of the sort of types_count: ascending, then reversed, which
\* turns the order of equal counts around.
SortTypesCountReversed(types_count) ==
    Reversed(sorted(types_count,
                    [j \in DOMAIN types_count |->
                        [i \in DOMAIN types_count |-> types_count[j][2] < types_count[i][2]]]))

\* sorted(types_count.items(), key=lambda x: x[1], reverse=True): reverse
\* sorts by descending key and keeps the order of equal keys.
SortTypesCount(types_count) ==
    sorted(types_count,
           [j \in DOMAIN types_count |->
               [i \in DOMAIN types_count |-> types_count[j][2] > types_count[i][2]]])

\* _format_types_count(types_count, array_types_count); the loop over the
\* sorted pairs runs from index i on and yields type_count_list.  The inner
\* call passes array_types_count only, so its own array_types_count is None
\* and None.items() raises AttributeError.
RECURSIVE format_types_count(_, _)
RECURSIVE TypeCountList(_, _, _)
TypeCountList(pairs, array_types_count, i) ==
    IF i > Len(pairs) THEN Return(<<>>)
    ELSE LET type_name == pairs[i][1]
             count == pairs[i][2]
             array_type_name == format_types_count(array_types_count, NoneItems)
             rest == TypeCountList(pairs, array_types_count, i + 1)
         IN  IF type_name = "ARRAY" /\ array_type_name.raised # None
             THEN array_type_name
             ELSE IF rest.raised # None THEN rest
             ELSE Return(<<IF type_name = "ARRAY"
                           THEN "ARRAY(" \o array_type_name.value \o ") : " \o ToString(count)
                           ELSE type_name \o " : " \o ToString(count)>>
                         \o rest.value)

format_types_count(types_count, array_types_count) ==
    IF types_count = NoneItems THEN Raise("AttributeError")
    ELSE LET type_count_list ==
                 TypeCountList(SortTypesCount(types_count), array_types_count, 1)
         IN  IF type_count_list.raised # None THEN type_count_list
             ELSE Return(join(", ", type_count_list.value))

FormatTypeNames == {"integer", "null", "ARRAY"}

\* The dicts of at most n keys among names, each with a count, in every
\* order of iteration.
CountDicts(names, n) ==
    {items \in UNION {[1..k -> names \X (1..MaxTypeCount)] : k \in 0..n} :
        \A i, j \in DOMAIN items : i # j => items[i][1] # items[j][1]}

\* types_count with the array_types_count that goes with it: present when
\* ARRAY is among the types, and naming the types of the array elements
\* (a list among them counts as ARRAY).
FormatInputs ==
    {[types_count |-> t, array_types_count |-> NoneItems] :
        t \in {t \in CountDicts(FormatTypeNames, MaxTypeKeys) :
                  t # <<>> /\ "ARRAY" \notin Keys(t)}}
    \cup
    {[types_count |-> t, array_types_count |-> a] :
        t \in {t \in CountDicts(FormatTypeNames, MaxTypeKeys) : "ARRAY" \in Keys(t)},
        a \in {a \in CountDicts(FormatTypeNames, MaxTypeKeys - 1) : a # <<>>}}

InitFormat ==
    /\ pc = "call"
    /\ fn = "_format_types_count"
    /\ input \in FormatInputs
    /\ output = Pending
    /\ heap = NoHeap

CallFormatTypesCount ==
    /\ pc = "call"
    /\ fn = "_format_types_count"
    /\ output' = format_types_count(input.types_count, input.array_types_count)
    /\ pc' = "done"
    /\ UNCHANGED <<fn, input, heap>>

SpecFormat == InitFormat /\ [][CallFormatTypesCount]_vars

CalledFormat == pc = "done" /\ fn = "_format_types_count"

\* The indices of a dict's pairs from the highest count to the lowest, pairs
\* of equal count in the order of the dict.
ByCountThenPosition(items) ==
    CHOOSE o \in [1..Len(items) -> 1..Len(items)] :
        /\ \A k, l \in 1..Len(items) : k # l => o[k] # o[l]
        /\ \A k, l \in 1..Len(items) :
              k < l => \/ items[o[k]][2] > items[o[l]][2]
                       \/ (items[o[k]][2] = items[o[l]][2] /\ o[k] < o[l])

\* The pieces of a sequence of strings with ", " between them.
RECURSIVE CommaSeparated(_)
CommaSeparated(pieces) ==
    IF pieces = <<>> THEN ""
    ELSE CommaSeparated(SubSeq(pieces, 1, Len(pieces) - 1))
         \o (IF Len(pieces) > 1 THEN ", " ELSE "")
         \o pieces[Len(pieces)]

\* `type : count` for each pair of a dict of plain types.
PlainListing(items) ==
    CommaSeparated([k \in 1..Len(items) |->
        LET e == items[ByCountThenPosition(items)[k]]
        IN  e[1] \o " : " \o ToString(e[2])])

\* The listing of types_count, its ARRAY entry holding the listing of
\* array_types_count.
ArrayListing(types_count, array_types_count) ==
    CommaSeparated([k \in 1..Len(types_count) |->
        LET e == types_count[ByCountThenPosition(types_count)[k]]
        IN  IF e[1] = "ARRAY"
            THEN "ARRAY(" \o PlainListing(array_types_count) \o ") : " \o ToString(e[2])
            ELSE e[1] \o " : " \o ToString(e[2])])

Ord(c) ==
    CASE c = "." -> 46
      [] c = "1" -> 49
      [] c = "2" -> 50
      [] c = ":" -> 58
      [] c = "a" -> 97
      [] c = "b" -> 98
      [] c = "c" -> 99
      [] c = "d" -> 100

\* x < y for two strings: by the first character that differs, a proper
\* prefix first.
RECURSIVE StrLess(_, _)
StrLess(x, y) ==
    IF y = "" THEN FALSE
    ELSE IF x = "" THEN TRUE
    ELSE IF Head(x) # Head(y) THEN Ord(Head(x)) < Ord(Head(y))
    ELSE StrLess(Tail(x), Tail(y))

\* re.sub('[^.:]', '', s): the dots and colons of s.
RECURSIVE Separators(_)
Separators(s) ==
    IF s = "" THEN ""
    ELSE (IF Head(s) \in {".", ":"} THEN Head(s) ELSE "") \o Separators(Tail(s))

\* re.sub('\.', ' . ', s) then re.sub(':', ' : ', ...) on a string of
\* separators.
RECURSIVE SpacedSeparators(_)
SpacedSeparators(s) ==
    IF s = "" THEN ""
    ELSE " " \o Head(s) \o " " \o SpacedSeparators(Tail(s))

\* column.lower() of a column name.
Lower(column) ==
    CASE column = "Field_full_name" -> "field_full_name"
      [] column = "Field_compact_name" -> "field_compact_name"
      [] column = "Field_name" -> "field_name"
      [] column = "Depth" -> "depth"
      [] column = "Type" -> "type"
      [] column = "Percentage" -> "percentage"
      [] column = "Types_count" -> "types_count"
      [] column = "Count" -> "count"
      [] OTHER -> column

(***************************************************************************)
(* export.py : _SchemaPreProcessing, flattening a schema                   *)
(***************************************************************************)
MaxFields == 3

MaxCount == 3

FieldNameSeq == <<"a", "a:", "b">>

FieldNames == {FieldNameSeq[i] : i \in DOMAIN FieldNameSeq}

\* The (key, value) pairs of a dict in the order the dict iterates, which
\* Python leaves open: keys come in the order of the sequence `order`.
items(d, order) ==
    LET keys == SelectSeq(order, LAMBDA k : k \in DOMAIN d)
    IN  [i \in DOMAIN keys |-> <<keys[i], d[keys[i]]>>]

\* The orders a dict over the set of keys may iterate in.
Orders(keys) ==
    {o \in [1..Cardinality(keys) -> keys] : \A i, j \in DOMAIN o : i # j => o[i] # o[j]}

\* _field_compact_name(field, field_schema, field_prefix)
field_compact_name(field, field_schema, field_prefix) ==
    SpacedSeparators(Separators(field_prefix)) \o field

\* _field_depth(field, field_schema, field_prefix)
field_depth(field, field_schema, field_prefix) ==
    Len(Separators(field_prefix))

\* _field_type(field, field_schema, field_prefix)
field_type(field, field_schema, field_prefix) ==
    IF field_schema.type = "ARRAY"
    THEN "ARRAY(" \o field_schema.array_type \o ")"
    ELSE field_schema.type

\* field_schema.get(key, None) for a key that holds a dict
GetItems(field_schema, key) ==
    IF key \in DOMAIN field_schema THEN field_schema[key] ELSE NoneItems

\* One entry of field_columns: column_functions[column](...) for a computed
\* column, field_schema.get(column, None) for any other.  The types_count
\* column is the string of _format_types_count, or the exception it raises.
Column(column, field, field_schema, field_prefix) ==
    CASE column = "field_full_name" -> Return(field_prefix \o field)
      [] column = "field_compact_name" ->
            Return(field_compact_name(field, field_schema, field_prefix))
      [] column = "field_name" -> Return(field)
      [] column = "depth" -> Return(field_depth(field, field_schema, field_prefix))
      [] column = "type" -> Return(field_type(field, field_schema, field_prefix))
      [] column = "percentage" -> Return(100 * field_schema.prop_in_object)
      [] column = "types_count" ->
            format_types_count(field_schema.types_count,
                               GetItems(field_schema, "array_types_count"))
      [] OTHER -> Return(IF column \in DOMAIN field_schema
                         THEN field_schema[column] ELSE None)

\* _field_schema_to_columns(field, field_schema, field_prefix, columns_to_get)
field_schema_to_columns(field, field_schema, field_prefix, columns_to_get) ==
    LET cols == [i \in DOMAIN columns_to_get |->
                    Column(Lower(columns_to_get[i]), field, field_schema, field_prefix)]
        failed == {i \in DOMAIN cols : cols[i].raised # None}
    IN  IF failed # {}
        THEN cols[CHOOSE i \in failed : \A j \in failed : i <= j]
        ELSE Return([i \in DOMAIN cols |-> cols[i].value])

\* A mutant of the sort of the fields: by descending count only, so fields
\* of equal count stay in the order of the mapping.
SortFieldsByCountOnly(fields) ==
    sorted(fields,
           [j \in DOMAIN fields |->
               [i \in DOMAIN fields |-> fields[j][2].count > fields[i][2].count]])

\* sorted(list(object_schema.items()), key=lambda x: (-x[1]['count'], x[0]))
SortFields(fields) ==
    sorted(fields,
           [j \in DOMAIN fields |->
               [i \in DOMAIN fields |->
                   \/ fields[j][2].count > fields[i][2].count
                   \/ /\ fields[j][2].count = fields[i][2].count
                      /\ StrLess(fields[j][1], fields[i][1])]])

\* A mutant of the recursion test: both branches taken when both hold.
NestedPrefixesBoth(field, field_schema, field_prefix) ==
    (IF /\ "ARRAY" \in Keys(field_schema.types_count)
        /\ "OBJECT" \in Keys(field_schema.array_types_count)
     THEN <<field_prefix \o field \o ":">> ELSE <<>>)
    \o
    (IF "OBJECT" \in Keys(field_schema.types_count)
     THEN <<field_prefix \o field \o ".">> ELSE <<>>)

\* A mutant of the recursion test: the elif branch left out.
NestedPrefixesArrayOnly(field, field_schema, field_prefix) ==
    IF /\ "ARRAY" \in Keys(field_schema.types_count)
       /\ "OBJECT" \in Keys(field_schema.array_types_count)
    THEN <<field_prefix \o field \o ":">>
    ELSE <<>>

\* The if / elif after a field's row: the prefixes field_schema['object'] is
\* flattened under (one or none).
NestedPrefixes(field, field_schema, field_prefix) ==
    IF /\ "ARRAY" \in Keys(field_schema.types_count)
       /\ "OBJECT" \in Keys(field_schema.array_types_count)
    THEN <<field_prefix \o field \o ":">>
    ELSE IF "OBJECT" \in Keys(field_schema.types_count)
    THEN <<field_prefix \o field \o ".">>
    ELSE <<>>

\* line_tuples += more: the lines so far followed by the further lines, or
\* the exception raised while either was computed.
Extend(line_tuples, more) ==
    IF line_tuples.raised # None THEN line_tuples
    ELSE IF more.raised # None THEN more
    ELSE Return(line_tuples.value \o more.value)

\* line_tuples.append(line_columns) on the empty list.
Appended(line_columns) ==
    IF line_columns.raised # None THEN line_columns
    ELSE Return(<<line_columns.value>>)

\* _object_schema_to_line_tuples(object_schema, columns_to_get, field_prefix);
\* the loop over sorted_fields runs from index i on.  `order` is the order
\* the dicts iterate in.
RECURSIVE object_schema_to_line_tuples(_, _, _, _)
RECURSIVE LineTuplesFrom(_, _, _, _, _)
RECURSIVE NestedLineTuples(_, _, _, _, _)
NestedLineTuples(field_schema, columns_to_get, prefixes, order, k) ==
    IF k > Len(prefixes) THEN Return(<<>>)
    ELSE Extend(object_schema_to_line_tuples(
                    field_schema.object, columns_to_get, prefixes[k], order),
                NestedLineTuples(field_schema, columns_to_get, prefixes, order, k + 1))

LineTuplesFrom(sorted_fields, columns_to_get, field_prefix, order, i) ==
    IF i > Len(sorted_fields) THEN Return(<<>>)
    ELSE Extend(
             Extend(
                 Appended(field_schema_to_columns(
                              sorted_fields[i][1], sorted_fields[i][2],
                              field_prefix, columns_to_get)),
                 NestedLineTuples(
                     sorted_fields[i][2], columns_to_get,
                     NestedPrefixes(sorted_fields[i][1], sorted_fields[i][2], field_prefix),
                     order, 1)),
             LineTuplesFrom(sorted_fields, columns_to_get, field_prefix, order, i + 1))

object_schema_to_line_tuples(object_schema, columns_to_get, field_prefix, order) ==
    LineTuplesFrom(SortFields(items(object_schema, order)),
                   columns_to_get, field_prefix, order, 1)

\* ListOutput.default_columns
default_columns == <<"Field_full_name", "Depth", "Field_name", "Type">>

\* The ways a field is met in the documents: as a scalar or as an array of
\* scalars,
ScalarShapes == {"scalar", "array"}

\* or as an object, as an array of objects, or as an object in some
\* documents and an array in others.
ObjectShapes ==
    {"object", "array_of_object", "object_and_array_of_object", "object_and_array"}

\* The field schema the extraction writes for a field met c times with the
\* given shape; `object` is the schema of its subfields.
FieldSchema(shape, c, object) ==
    CASE shape = "scalar" ->
            [count |-> c, prop_in_object |-> 1, type |-> "integer",
             types_count |-> <<<<"integer", c>>>>]
      [] shape = "array" ->
            [count |-> c, prop_in_object |-> 1, type |-> "ARRAY",
             array_type |-> "integer",
             types_count |-> <<<<"ARRAY", c>>>>,
             array_types_count |-> <<<<"integer", c>>>>]
      [] shape = "object" ->
            [count |-> c, prop_in_object |-> 1, type |-> "OBJECT",
             types_count |-> <<<<"OBJECT", c>>>>,
             object |-> object]
      [] shape = "array_of_object" ->
            [count |-> c, prop_in_object |-> 1, type |-> "ARRAY",
             array_type |-> "OBJECT",
             types_count |-> <<<<"ARRAY", c>>>>,
             array_types_count |-> <<<<"OBJECT", c>>>>,
             object |-> object]
      [] shape = "object_and_array_of_object" ->
            [count |-> c, prop_in_object |-> 1, type |-> "ARRAY",
             array_type |-> "OBJECT",
             types_count |-> <<<<"OBJECT", 1>>, <<"ARRAY", c - 1>>>>,
             array_types_count |-> <<<<"OBJECT", c - 1>>>>,
             object |-> object]
      [] shape = "object_and_array" ->
            [count |-> c, prop_in_object |-> 1, type |-> "ARRAY",
             array_type |-> "mixed_scalar_object",
             types_count |-> <<<<"OBJECT", 1>>, <<"ARRAY", c - 1>>>>,
             array_types_count |-> <<<<"integer", c - 1>>>>,
             object |-> object]

\* An object schema with no field.
EmptyObject == <<>>

\* The object schemas of n fields in all, nested ones included, whose own
\* fields are among FieldNameSeq[i], FieldNameSeq[i + 1], ...; and the
\* field schemas of a field with n subfields in all.  A field with no
\* subfield is a scalar, an array of scalars, or an object that is empty in
\* every document.
RECURSIVE ObjectSchemasFrom(_, _)
RECURSIVE FieldSchemasOf(_)
FieldSchemasOf(n) ==
    IF n = 0
    THEN {FieldSchema(shape, c, EmptyObject) :
             shape \in ScalarShapes \cup {"object"}, c \in 2..MaxCount}
    ELSE {FieldSchema(shape, c, object) :
             shape \in ObjectShapes, c \in 2..MaxCount, object \in ObjectSchemasFrom(1, n)}

ObjectSchemasFrom(i, n) ==
    IF i > Len(FieldNameSeq) THEN (IF n = 0 THEN {EmptyObject} ELSE {})
    ELSE ObjectSchemasFrom(i + 1, n)
         \cup
         UNION {{(FieldNameSeq[i] :> field_schema) @@ rest :
                    field_schema \in FieldSchemasOf(k),
                    rest \in ObjectSchemasFrom(i + 1, n - 1 - k)} :
                   k \in 0..(n - 1)}

\* The object schemas of n fields in all.
ObjectSchemas(n) == ObjectSchemasFrom(1, n)

InitFlatten ==
    /\ pc = "call"
    /\ fn = "_object_schema_to_line_tuples"
    /\ \E n \in 0..MaxFields :
          \E object_schema \in ObjectSchemas(n) :
             input = [object_schema |-> object_schema, columns_to_get |-> default_columns,
                      field_prefix |-> ""]
    /\ output = Pending
    /\ heap = NoHeap

CallObjectSchemaToLineTuples ==
    /\ pc = "call"
    /\ fn = "_object_schema_to_line_tuples"
    /\ \E order \in Orders(FieldNames) :
          output' = object_schema_to_line_tuples(
                        input.object_schema, input.columns_to_get,
                        input.field_prefix, order)
    /\ pc' = "done"
    /\ UNCHANGED <<fn, input, heap>>

SpecFlatten == InitFlatten /\ [][CallObjectSchemaToLineTuples]_vars

CalledFlatten == pc = "done" /\ fn = "_object_schema_to_line_tuples"

(***************************************************************************)
(* export.py : _SchemaPreProcessing.convert_to_dataframe                   *)
(***************************************************************************)
MaxCollections == 2

MaxSchemaFields == 2

DbNames == {"db1", "db2"}

CollNames == {"c1", "c2"}

\* sorted(list(d.items())): the keys of a dict differ, so the pairs are
\* ordered by key.
SortItems(pairs) ==
    sorted(pairs,
           [j \in DOMAIN pairs |->
               [i \in DOMAIN pairs |-> StrLess(pairs[j][1], pairs[i][1])]])

\* [database, collection] + list(line) for each line of a collection.
InCollection(database, collection, collection_line_tuples) ==
    IF collection_line_tuples.raised # None THEN collection_line_tuples
    ELSE Return([k \in DOMAIN collection_line_tuples.value |->
                    <<database, collection>> \o collection_line_tuples.value[k]])

\* The inner loops of convert_to_dataframe, over the sorted collections of
\* one database from index i on: [database, collection] + list(line) for
\* each line of the collection.
RECURSIVE CollectionsLineTuples(_, _, _, _, _)
CollectionsLineTuples(database, collections, columns_to_get, order, i) ==
    IF i > Len(collections) THEN Return(<<>>)
    ELSE Extend(
             InCollection(database, collections[i][1],
                          object_schema_to_line_tuples(
                              collections[i][2].object, columns_to_get, "", order)),
             CollectionsLineTuples(database, collections, columns_to_get, order, i + 1))

\* The outer loop of convert_to_dataframe, over the sorted databases from
\* index i on.
RECURSIVE DatabasesLineTuples(_, _, _, _)
DatabasesLineTuples(databases, columns_to_get, order, i) ==
    IF i > Len(databases) THEN Return(<<>>)
    ELSE Extend(
             CollectionsLineTuples(
                 databases[i][1], SortItems(items(databases[i][2], order)),
                 columns_to_get, order, 1),
             DatabasesLineTuples(databases, columns_to_get, order, i + 1))

\* pd.DataFrame(line_tuples, columns=header): the dataframe as its columns
\* and its rows.
DataFrame(line_tuples, header) ==
    IF line_tuples.raised # None THEN line_tuples
    ELSE Return([columns |-> header, table |-> line_tuples.value])

\* _SchemaPreProcessing.convert_to_dataframe(data, columns_to_get)
Schema_convert_to_dataframe(data, columns_to_get, order) ==
    DataFrame(DatabasesLineTuples(SortItems(items(data, order)), columns_to_get, order, 1),
              <<"Database", "Collection">> \o columns_to_get)

\* The ways to give each of the collections colls, (database, collection)
\* pairs, an object schema, with n fields in all.
RECURSIVE CollectionObjects(_, _)
CollectionObjects(colls, n) ==
    IF colls = {} THEN (IF n = 0 THEN {<<>>} ELSE {})
    ELSE LET coll == CHOOSE c \in colls : TRUE
         IN  UNION {{(coll :> object) @@ rest :
                        object \in ObjectSchemas(k),
                        rest \in CollectionObjects(colls \ {coll}, n - k)} :
                       k \in 0..n}

\* The schema of the databases dbs with the collections colls.
Schema(dbs, colls, objects) ==
    [database \in dbs |->
        [collection \in {c \in CollNames : <<database, c>> \in colls} |->
            [object |-> objects[<<database, collection>>]]]]

\* Two orders for the dicts of a schema to iterate in: every dict with its
\* keys ascending, or every dict with its keys descending.
SchemaOrders ==
    LET ascending == <<"a", "a:", "b", "c1", "c2", "db1", "db2">>
    IN  {ascending, Reversed(ascending)}

InitDataframe ==
    /\ pc = "call"
    /\ fn = "_SchemaPreProcessing.convert_to_dataframe"
    /\ \E dbs \in SUBSET DbNames :
          \E colls \in {cs \in SUBSET (dbs \X CollNames) : Cardinality(cs) <= MaxCollections} :
             \E n \in 0..MaxSchemaFields :
                \E objects \in CollectionObjects(colls, n) :
                   input = [data |-> Schema(dbs, colls, objects),
                            columns_to_get |-> default_columns]
    /\ output = Pending
    /\ heap = NoHeap

CallSchemaConvertToDataframe ==
    /\ pc = "call"
    /\ fn = "_SchemaPreProcessing.convert_to_dataframe"
    /\ \E order \in SchemaOrders :
          output' = Schema_convert_to_dataframe(input.data, input.columns_to_get, order)
    /\ pc' = "done"
    /\ UNCHANGED <<fn, input, heap>>

SpecDataframe == InitDataframe /\ [][CallSchemaConvertToDataframe]_vars

CalledDataframe == pc = "done" /\ fn = "_SchemaPreProcessing.convert_to_dataframe"

(***************************************************************************)
(* Properties of the flattening                                            *)
(***************************************************************************)

\* The column of the Field_full_name, Depth and Field_name of a line.
FullNameOf(line) == line[1]

DepthOf(line) == line[2]

FieldNameOf(line) == line[3]

\* The separator the rule gives the subfields of a field, "" for none.
RuleSeparator(field_schema) ==
    IF /\ "ARRAY" \in Keys(field_schema.types_count)
       /\ "array_types_count" \in DOMAIN field_schema
       /\ "OBJECT" \in Keys(field_schema.array_types_count)
    THEN ":"
    ELSE IF "OBJECT" \in Keys(field_schema.types_count) THEN "." ELSE ""

\* The listings of full names the rule allows for an object schema under a
\* prefix: the fields in some order, each followed at once by a listing of
\* its subfields under prefix + field + separator when the rule gives it a
\* separator, and by nothing otherwise.
RECURSIVE RuleListings(_, _)
RECURSIVE RuleListingsFrom(_, _, _, _)
RuleListingsFrom(object_schema, field_prefix, fields, i) ==
    IF i > Len(fields) THEN {<<>>}
    ELSE LET field == fields[i]
             separator == RuleSeparator(object_schema[field])
             nested == IF separator = "" THEN {<<>>}
                       ELSE RuleListings(object_schema[field].object,
                                         field_prefix \o field \o separator)
         IN  {<<field_prefix \o field>> \o below \o after :
                 below \in nested,
                 after \in RuleListingsFrom(object_schema, field_prefix, fields, i + 1)}

RuleListings(object_schema, field_prefix) ==
    UNION {RuleListingsFrom(object_schema, field_prefix, fields, 1) :
              fields \in Orders(DOMAIN object_schema)}

\* C1: the lines of an object schema are, for each of its fields, the line
\* of the field followed at once, before the line of the next sibling, by
\* the lines of its subfields under the prefix extended by "<field>:" when
\* types_count has ARRAY and array_types_count has OBJECT, else by
\* "<field>." when types_count has OBJECT, else by nothing; the subfields
\* are never listed twice.
C1_NestedRowsFollowTheirField ==
    CalledFlatten =>
        /\ output.raised = None
        /\ [k \in DOMAIN output.value |-> FullNameOf(output.value[k])]
              \in RuleListings(input.object_schema, input.field_prefix)

\* A field that is an object in some documents and an array of objects in
\* others, with a subfield and a sibling after it.
C1_Witness ==
    /\ CalledFlatten
    /\ DOMAIN input.object_schema = {"a", "b"}
    /\ Keys(input.object_schema["a"].types_count) = {"OBJECT", "ARRAY"}
    /\ "object" \in DOMAIN input.object_schema["a"]
    /\ "OBJECT" \in Keys(input.object_schema["a"].array_types_count)
    /\ DOMAIN input.object_schema["a"].object = {"b"}
    /\ output.raised = None
    /\ [k \in DOMAIN output.value |-> FullNameOf(output.value[k])] = <<"a", "a:b", "b">>

\* The lines of the fields of the object schema itself, not of subfields.
TopLines(lines) == SelectSeq(lines, LAMBDA line : DepthOf(line) = 0)

\* C2: the lines of the fields of one object schema come by descending
\* count, and by ascending name among fields of equal count, whatever order
\* the mapping iterates in.
C2_SiblingsByCountThenName ==
    CalledFlatten =>
        /\ output.raised = None
        /\ LET object_schema == input.object_schema
               names == [k \in DOMAIN TopLines(output.value) |->
                            FieldNameOf(TopLines(output.value)[k])]
           IN  /\ Len(names) = Cardinality(DOMAIN object_schema)
               /\ SeqToSet(names) = DOMAIN object_schema
               /\ \A i, j \in DOMAIN names :
                     i < j =>
                        \/ object_schema[names[i]].count > object_schema[names[j]].count
                        \/ /\ object_schema[names[i]].count = object_schema[names[j]].count
                           /\ StrLess(names[i], names[j])

\* Three siblings, two of equal count and one of a higher count.
C2_Witness ==
    /\ CalledFlatten
    /\ DOMAIN input.object_schema = {"a", "a:", "b"}
    /\ input.object_schema["a"].count = 2
    /\ input.object_schema["a:"].count = 2
    /\ input.object_schema["b"].count = 3
    /\ output.raised = None
    /\ [k \in DOMAIN output.value |-> FieldNameOf(output.value[k])] = <<"b", "a", "a:">>

\* The sum of f over the set S.
RECURSIVE SumOver(_, _)
SumOver(f, S) ==
    IF S = {} THEN 0
    ELSE LET x == CHOOSE x \in S : TRUE
         IN  f[x] + SumOver(f, S \ {x})

\* The number of fields of an object schema, at all levels.
RECURSIVE FieldsIn(_)
FieldsIn(object_schema) ==
    SumOver([field \in DOMAIN object_schema |->
                1 + (IF "object" \in DOMAIN object_schema[field]
                     THEN FieldsIn(object_schema[field].object) ELSE 0)],
            DOMAIN object_schema)

\* The number of fields of a schema, over its databases and collections.
TotalFields(data) ==
    SumOver([database \in DOMAIN data |->
                SumOver([collection \in DOMAIN data[database] |->
                            FieldsIn(data[database][collection].object)],
                        DOMAIN data[database])],
            DOMAIN data)

\* The indexes of the rows of the field of a collection (not a subfield).
RowsOfField(table, database, collection, field) ==
    {k \in DOMAIN table :
        /\ table[k][1] = database
        /\ table[k][2] = collection
        /\ DepthOf(SubSeq(table[k], 3, Len(table[k]))) = 0
        /\ FieldNameOf(SubSeq(table[k], 3, Len(table[k]))) = field}

\* The field has one row, and the row after it is no row of a subfield.
OneRowAndNoNestedRows(table, database, collection, field) ==
    LET rows == RowsOfField(table, database, collection, field)
    IN  /\ Cardinality(rows) = 1
        /\ \A k \in rows :
              k < Len(table) => DepthOf(SubSeq(table[k + 1], 3, Len(table[k + 1]))) = 0

\* An array whose elements are scalars only.
ArrayOfScalars(field_schema) ==
    /\ "ARRAY" \in Keys(field_schema.types_count)
    /\ "OBJECT" \notin Keys(field_schema.array_types_count)

\* C3 as stated: the dataframe has one row per field of the schema, at all
\* levels of all collections of all databases, and a field whose array
\* elements are scalars only has its own row and no nested rows.
C3_OneRowPerField ==
    CalledDataframe =>
        /\ output.raised = None
        /\ Len(output.value.table) = TotalFields(input.data)
        /\ \A database \in DOMAIN input.data :
              \A collection \in DOMAIN input.data[database] :
                 LET object_schema == input.data[database][collection].object
                 IN  \A field \in DOMAIN object_schema :
                        ArrayOfScalars(object_schema[field]) =>
                           OneRowAndNoNestedRows(output.value.table,
                                                 database, collection, field)

\* C3, amended: the dataframe has one row per field of the schema, at all
\* levels of all collections of all databases, and a field whose array
\* elements are scalars only, and which is an object in no document, has
\* its own row and no nested rows.
C3_OneRowPerFieldObjectsAside ==
    CalledDataframe =>
        /\ output.raised = None
        /\ Len(output.value.table) = TotalFields(input.data)
        /\ \A database \in DOMAIN input.data :
              \A collection \in DOMAIN input.data[database] :
                 LET object_schema == input.data[database][collection].object
                 IN  \A field \in DOMAIN object_schema :
                        /\ ArrayOfScalars(object_schema[field])
                        /\ "OBJECT" \notin Keys(object_schema[field].types_count)
                        => OneRowAndNoNestedRows(output.value.table,
                                                 database, collection, field)

\* Two collections of two databases, one with a field that is an array of
\* scalars and one with a scalar field: two rows.
C3_Witness ==
    /\ CalledDataframe
    /\ DOMAIN input.data = {"db1", "db2"}
    /\ DOMAIN input.data["db1"] = {"c2"}
    /\ DOMAIN input.data["db2"] = {"c1"}
    /\ DOMAIN input.data["db1"]["c2"].object = {"a"}
    /\ DOMAIN input.data["db2"]["c1"].object = {"b"}
    /\ ArrayOfScalars(input.data["db1"]["c2"].object["a"])
    /\ "OBJECT" \notin Keys(input.data["db1"]["c2"].object["a"].types_count)
    /\ output.raised = None
    /\ Len(output.value.table) = 2
    /\ output.value.table[1][1] = "db1"
    /\ output.value.table[2][1] = "db2"

(***************************************************************************)
(* mongo_sql_types.py : TYPE_TO_STR and type_name                          *)
(***************************************************************************)
MaxCalls == 4

\* TYPE_TO_STR as the module defines it, its keys the types by name.
TYPE_TO_STR ==
    [list |-> "ARRAY", dict |-> "OBJECT", NoneType |-> "null",
     bool |-> "boolean", int |-> "integer", Int64 |-> "biginteger",
     float |-> "float", str |-> "string", unicode |-> "string",
     datetime |-> "date", Timestamp |-> "timestamp",
     DBRef |-> "dbref", ObjectId |-> "oid"]

\* The types of the values type_name is called on: two with a mapping, two
\* without.
ValueTypes == {"int", "unicode", "long", "Decimal128"}

\* A value, known by its type.
Value(value_type) == [type |-> value_type]

\* A mutant of type_name: the except branch does not write TYPE_TO_STR.
type_name_not_remembered(types, value) ==
    LET value_type == value.type
    IN  IF value_type \in DOMAIN types
        THEN [TYPE_TO_STR |-> types, warnings |-> <<>>,
              outcome |-> Return(types[value_type])]
        ELSE [TYPE_TO_STR |-> types, warnings |-> <<value_type>>,
              outcome |-> Return("unknown")]

\* type_name(value), with TYPE_TO_STR as the call finds it: what it leaves
\* in TYPE_TO_STR, the warnings it logs, and what it returns.
type_name(types, value) ==
    LET value_type == value.type
    IN  IF value_type \in DOMAIN types
        THEN [TYPE_TO_STR |-> types, warnings |-> <<>>,
              outcome |-> Return(types[value_type])]
        ELSE [TYPE_TO_STR |-> (value_type :> "unknown") @@ types,
              warnings |-> <<value_type>>,
              outcome |-> Return("unknown")]

\* The process after import: TYPE_TO_STR as defined, nothing logged, no
\* call made; `calls` keeps the types of the values passed so far.
InitRegistry ==
    /\ pc = "call"
    /\ fn = "type_name"
    /\ input \in {[value |-> Value(t)] : t \in ValueTypes}
    /\ output = Pending
    /\ heap = [TYPE_TO_STR |-> TYPE_TO_STR, warnings |-> <<>>, calls |-> <<>>]

CallTypeName ==
    /\ pc = "call"
    /\ fn = "type_name"
    /\ LET call == type_name(heap.TYPE_TO_STR, input.value)
       IN  /\ output' = call.outcome
           /\ heap' = [TYPE_TO_STR |-> call.TYPE_TO_STR,
                       warnings |-> heap.warnings \o call.warnings,
                       calls |-> Append(heap.calls, input.value.type)]
    /\ pc' = "done"
    /\ UNCHANGED <<fn, input>>

\* The caller goes on to the next value.
NextTypeName ==
    /\ pc = "done"
    /\ fn = "type_name"
    /\ Len(heap.calls) < MaxCalls
    /\ input' \in {[value |-> Value(t)] : t \in ValueTypes}
    /\ output' = Pending
    /\ pc' = "call"
    /\ UNCHANGED <<fn, heap>>

SpecRegistry == InitRegistry /\ [][CallTypeName \/ NextTypeName]_vars

\* C11: over a sequence of calls of type_name, no entry of TYPE_TO_STR is
\* removed or changed; the first call for a type without a mapping returns
\* "unknown", maps the type to "unknown" and logs one warning for it; every
\* later call for that type returns "unknown" and logs nothing; so no type
\* is ever warned about twice.
C11_RegistryGrowsAndWarnsOnce ==
    /\ [][/\ \A t \in DOMAIN heap.TYPE_TO_STR :
                /\ t \in DOMAIN heap'.TYPE_TO_STR
                /\ heap'.TYPE_TO_STR[t] = heap.TYPE_TO_STR[t]
          /\ (pc = "call" /\ pc' = "done") =>
                LET t == input.value.type
                    first == t \notin SeqToSet(heap.calls)
                IN  /\ (t \notin DOMAIN TYPE_TO_STR /\ first) =>
                          /\ output' = Return("unknown")
                          /\ t \in DOMAIN heap'.TYPE_TO_STR
                          /\ heap'.TYPE_TO_STR[t] = "unknown"
                          /\ heap'.warnings = Append(heap.warnings, t)
                    /\ (t \notin DOMAIN TYPE_TO_STR /\ ~first) =>
                          /\ output' = Return("unknown")
                          /\ heap'.warnings = heap.warnings
                    /\ t \in DOMAIN TYPE_TO_STR => heap'.warnings = heap.warnings
         ]_vars
    /\ [](\A i, j \in DOMAIN heap.warnings :
             heap.warnings[i] = heap.warnings[j] => i = j)

\* A type without a mapping met twice, with another call in between: one
\* warning, and "unknown" returned the second time.
C11_Witness ==
    /\ pc = "done"
    /\ fn = "type_name"
    /\ heap.calls = <<"long", "int", "long">>
    /\ heap.warnings = <<"long">>
    /\ "long" \in DOMAIN heap.TYPE_TO_STR
    /\ heap.TYPE_TO_STR["long"] = "unknown"
    /\ output = Return("unknown")

(***************************************************************************)
(* The Depth column                                                        *)
(***************************************************************************)

\* The listings of (full name, number of ancestor fields) of an object
\* schema whose fields have `ancestors` fields above them: the fields in
\* some order, each followed by a listing of its subfields, which have one
\* ancestor more.
RECURSIVE NestingListings(_, _, _)
RECURSIVE NestingListingsFrom(_, _, _, _, _)
NestingListingsFrom(object_schema, field_prefix, ancestors, fields, i) ==
    IF i > Len(fields) THEN {<<>>}
    ELSE LET field == fields[i]
             separator == RuleSeparator(object_schema[field])
             nested == IF separator = "" THEN {<<>>}
                       ELSE NestingListings(object_schema[field].object,
                                            field_prefix \o field \o separator,
                                            ancestors + 1)
         IN  {<<<<field_prefix \o field, ancestors>>>> \o below \o after :
                 below \in nested,
                 after \in NestingListingsFrom(object_schema, field_prefix,
                                               ancestors, fields, i + 1)}

NestingListings(object_schema, field_prefix, ancestors) ==
    UNION {NestingListingsFrom(object_schema, field_prefix, ancestors, fields, 1) :
              fields \in Orders(DOMAIN object_schema)}

\* C12: the Depth of every line is the number of ancestor fields of its
\* field: 0 for a field of the object schema itself, one more than its
\* parent's for a subfield, whatever the fields are called.
C12_DepthIsNumberOfAncestors ==
    CalledFlatten =>
        /\ output.raised = None
        /\ [k \in DOMAIN output.value |->
               <<FullNameOf(output.value[k]), DepthOf(output.value[k])>>]
              \in NestingListings(input.object_schema, input.field_prefix, 0)

(***************************************************************************)
(* export.py : BaseOutput.open                                             *)
(***************************************************************************)
MaxOpens == 3

\* s.endswith(suffix)
endswith(s, suffix) ==
    /\ Len(suffix) <= Len(s)
    /\ SubSeq(s, Len(s) - Len(suffix) + 1, Len(s)) = suffix

\* The filenames open is called with: none, one without and one with the
\* extension.
Filenames == {"", "out", "out.json"}

\* output_format of the classes of the writers.
OutputFormats == {"json", "md"}

\* What open yields: sys.stdout, or the file object of a named file.
Stdout == [file |-> "<stdout>"]

File(filename) == [file |-> filename]

\* self.opener()(filename): BaseOutput.opener opens the named file for
\* writing, _stdout_opener gives sys.stdout whatever the name.
Opened(opener, filename) ==
    IF opener = "_stdout_opener" THEN Stdout ELSE File(filename)

\* The body of open down to the yield: the attributes of self it leaves,
\* and the file descriptor it yields.
open_enter(self, filename) ==
    LET stdout == ~(filename # "")
        bound == IF stdout
                 THEN [self EXCEPT !.opener = "_stdout_opener", !.closer = "_stdout_closer"]
                 ELSE self
        name == IF ~stdout /\ ~endswith(filename, "." \o self.output_format)
                THEN filename \o "." \o self.output_format
                ELSE filename
    IN  [self |-> bound, file_descr |-> Opened(bound.opener, name)]

\* self.closer(file_descr): what is open afterwards.  BaseOutput.closer
\* closes the descriptor, _stdout_closer does nothing.
Closed(closer, file_descr, open_files) ==
    IF closer = "_stdout_closer" THEN open_files ELSE open_files \ {file_descr}

\* A writer as constructed (opener and closer are the methods of the class)
\* in a process with sys.stdout open; `calls` keeps the filenames passed so
\* far.
InitOpen ==
    /\ pc = "call"
    /\ fn = "BaseOutput.open"
    /\ input \in {[filename |-> f] : f \in Filenames}
    /\ output = Pending
    /\ \E format \in OutputFormats :
          heap = [self |-> [output_format |-> format,
                            opener |-> "opener", closer |-> "closer"],
                  open_files |-> {Stdout},
                  calls |-> <<>>]

\* with self.open(filename) as file_descr: entering the block.
EnterOpen ==
    /\ pc = "call"
    /\ fn = "BaseOutput.open"
    /\ LET entered == open_enter(heap.self, input.filename)
       IN  /\ output' = Return(entered.file_descr)
           /\ heap' = [self |-> entered.self,
                       open_files |-> heap.open_files \cup {entered.file_descr},
                       calls |-> Append(heap.calls, input.filename)]
    /\ pc' = "yielded"
    /\ UNCHANGED <<fn, input>>

\* Leaving the block: the finally clause.
ExitOpen ==
    /\ pc = "yielded"
    /\ fn = "BaseOutput.open"
    /\ heap' = [heap EXCEPT
                   !.open_files = Closed(heap.self.closer, output.value, heap.open_files)]
    /\ pc' = "done"
    /\ UNCHANGED <<fn, input, output>>

\* The next call of open on the same writer.
NextOpen ==
    /\ pc = "done"
    /\ fn = "BaseOutput.open"
    /\ Len(heap.calls) < MaxOpens
    /\ input' \in {[filename |-> f] : f \in Filenames}
    /\ output' = Pending
    /\ pc' = "call"
    /\ UNCHANGED <<fn, heap>>

SpecOpen == InitOpen /\ [][EnterOpen \/ ExitOpen \/ NextOpen]_vars

\* The name of the file a filename stands for.
WithExtension(filename, output_format) ==
    IF endswith(filename, "." \o output_format) THEN filename
    ELSE filename \o "." \o output_format

\* C13: whatever filenames the earlier calls on the writer had, a call of
\* open with a filename yields that file, with the extension added when it
\* is missing, open inside the block and closed after it; a call without a
\* filename yields standard output, which stays open.
C13_DestinationFollowsCurrentCall ==
    (fn = "BaseOutput.open" /\ pc \in {"yielded", "done"}) =>
        /\ Stdout \in heap.open_files
        /\ input.filename = "" => output = Return(Stdout)
        /\ input.filename # "" =>
              LET file == File(WithExtension(input.filename, heap.self.output_format))
              IN  /\ output = Return(file)
                  /\ pc = "yielded" => file \in heap.open_files
                  /\ pc = "done" => file \notin heap.open_files

(***************************************************************************)
(* Fields under filter_data                                                *)
(***************************************************************************)

\* v is the schema of a collection or of a field: a dict whose `object`
\* entry, if any, maps field names to schemas of fields, and whose other
\* entries are no dicts.
RECURSIVE IsSchemaPart(_)
IsSchemaPart(v) ==
    /\ IsDict(v)
    /\ \A k \in DOMAIN v.items :
          IF k = "object"
          THEN /\ IsDict(v.items[k])
               /\ \A field \in DOMAIN v.items[k].items : IsSchemaPart(v.items[k].items[field])
          ELSE ~IsDict(v.items[k])

\* The key paths of the `object` mappings of a schema part, at all depths.
RECURSIVE ObjectMappings(_)
ObjectMappings(v) ==
    IF "object" \in DOMAIN v.items
    THEN {<<"object">>}
         \cup UNION {{<<"object", field>> \o p : p \in ObjectMappings(v.items.object.items[field])} :
                        field \in DOMAIN v.items.object.items}
    ELSE {}

\* C14: filter_data drops no field: every `object` mapping of the input is
\* an `object` mapping of the output, at the same place, with every field
\* name it had in the input, whatever the fields are called.
C14_FilterKeepsEveryField ==
    (CalledFilter /\ IsSchemaPart(input.data)) =>
        /\ output.raised = None
        /\ \A p \in ObjectMappings(input.data) :
              /\ p \in Paths(output.value)
              /\ IsDict(At(output.value, p))
              /\ DOMAIN At(input.data, p).items \subseteq DOMAIN At(output.value, p).items

====
